---- MODULE Spec2Model ----
(***************************************************************************)
(* Model of src/stylus.c (IPTS stylus report decoding).                    *)
(*                                                                         *)
(* A touch-data buffer is a byte array.  ipts_stylus_parse_report reads    *)
(* the report count at offset 32 and hands every record to                 *)
(* ipts_stylus_handle_report, which tracks the active tool in              *)
(* ipts->stylus_tool and emits input events to the stylus input device.    *)
(* ipts_stylus_init / ipts_stylus_free manage that device.                 *)
(***************************************************************************)
EXTENDS Integers, Sequences, FiniteSets, TLC

\* ------------------------------------------------------------------ bounds
\* Number of records physically present in a delivered buffer.
MaxRecords == 2
\* Largest value of the count byte in a delivered buffer.
MaxCount == 3

\* ------------------------------------------------- protocol (headers)
\* protocol/enums.h: bits of the mode field.
IPTS_STYLUS_REPORT_MODE_PROXIMITY == 1
IPTS_STYLUS_REPORT_MODE_TOUCH == 2
IPTS_STYLUS_REPORT_MODE_BUTTON == 4
IPTS_STYLUS_REPORT_MODE_RUBBER == 8

\* protocol/touch.h: packed record sizes.
\* struct ipts_stylus_report: mode(u8) x y pressure altitude azimuth timestamp (u16 each)
StylusReportSize == 13
\* struct ipts_stylus_report_ntrig: mode(u8) x y pressure (u16 each)
StylusReportNtrigSize == 7

\* Offsets into data->data used by the two parsers.
CountOffset == 32
ReportsOffset == 40
NtrigReportsOffset == 44

\* Width of the loop counter and of the count (u8), and of the u16 fields.
U8Mod == 256
U16Mod == 65536

\* Key codes of the input device (linux/input-event-codes.h), kept by name.
BTN_TOOL_PEN == "BTN_TOOL_PEN"
BTN_TOOL_RUBBER == "BTN_TOOL_RUBBER"
BTN_TOUCH == "BTN_TOUCH"
BTN_STYLUS == "BTN_STYLUS"
\* The keys that name a tool; the sink's view of them is tracked.
ToolKeys == {BTN_TOOL_PEN, BTN_TOOL_RUBBER}
\* Value of ipts->stylus_tool in a zero-allocated context, before init.
NO_TOOL == "NO_TOOL"

\* ------------------------------------------------------------ state
VARIABLES
    quirks,       \* TRUE iff ipts->quirks has IPTS_QUIRKS_NTRIG_DIGITIZER
    stylus,       \* ipts->stylus: "NULL" or "dev" (a pointer to the device)
    dev,          \* the pointed-to device: "none", "allocated", "registered", "freed",
                  \* "unregistered"
    stylus_tool,  \* ipts->stylus_tool
    keys,         \* state of the tool keys of the input device, as the sink sees it
    data,         \* the struct ipts_touch_data last delivered: [buffer, data]
    pc,           \* "idle", or "buffer" when a buffer awaits parsing
    last,         \* the last completed operation
    ret,          \* return value of the last ipts_stylus_init
    events,       \* events emitted by the last ipts_stylus_parse_report
    calls,        \* the ipts_stylus_handle_report calls of the last parse
    tool0,        \* stylus_tool when the last buffer was delivered
    keys0,        \* keys when the last buffer was delivered
    oob,          \* the last parse read past the end of data->data
    oops,         \* the last parse faulted on such a read
    seen,         \* a report was handled since the last init
    first,        \* calls[1] is the first report handled since the last init
    badfree,      \* the last ipts_stylus_free unregistered a dead device
    absmax        \* maximum of ABS_PRESSURE declared for the device

vars == <<quirks, stylus, dev, stylus_tool, keys, data, pc, last, ret, events,
          calls, tool0, keys0, oob, oops, seen, first, badfree, absmax>>

\* ------------------------------------------------------------ input events
\* input_report_key(dev, code, value): EV_KEY with the value made boolean.
input_report_key(code, value) ==
    [type |-> "EV_KEY", code |-> code, value |-> IF value # 0 THEN 1 ELSE 0]

\* input_report_abs(dev, code, value)
input_report_abs(code, value) ==
    [type |-> "EV_ABS", code |-> code, value |-> value]

\* input_sync(dev)
input_sync == [type |-> "EV_SYN", code |-> "SYN_REPORT", value |-> 0]

\* The sink's tool keys after one event.
ApplyEvent(k, e) ==
    IF e.type = "EV_KEY" /\ e.code \in ToolKeys THEN [k EXCEPT ![e.code] = e.value] ELSE k

RECURSIVE ApplyEvents(_, _)
ApplyEvents(k, evs) ==
    IF evs = << >> THEN k
    ELSE ApplyEvents(ApplyEvent(k, Head(evs)), Tail(evs))

NoKeys == [c \in ToolKeys |-> 0]

\* ------------------------------------------------------------ handle_report
\* mode & mask, for a one-bit mask.
BitAnd(mode, mask) == ((mode \div mask) % 2) * mask

\* Lines 32-35: the tool of a report.
DerivedTool(prox, rubber) ==
    IF prox # 0 /\ rubber # 0 THEN BTN_TOOL_RUBBER ELSE BTN_TOOL_PEN

\* Lines 37-42: the events of the tool switch ("fake proximity out").
SwitchEventsLate(active, tool) ==
    IF active # tool
    THEN << input_report_key(tool, 0), input_sync >>
    ELSE << >>

SwitchEventsNone(active, tool) == << >>

SwitchEventsAlways(active, tool) ==
    << input_report_key(active, 0), input_sync >>

SwitchEvents(active, tool) ==
    IF active # tool
    THEN << input_report_key(active, 0), input_sync >>
    ELSE << >>

\* Lines 38-42: stylus_tool after the switch.
SwitchToolKeep(active, tool) == active

SwitchTool(active, tool) == IF active # tool THEN tool ELSE active

\* Lines 22-30: tilt of a report; conv is what
\* ipts_math_altitude_azimuth_to_tilt stores in tx, ty when it is called.
\* Line 27: the converter is called only for a non-zero altitude.
ConvertsAlways(report) == TRUE

Converts(report) == report.altitude # 0

Tilt(report, conv) == IF Converts(report) THEN conv ELSE <<0, 0>>

\* Lines 44-56: the events of the report itself.
ReportEventsAbsFirst(active, report, tilt) ==
    << input_report_abs("ABS_X", report.x),
       input_report_abs("ABS_Y", report.y),
       input_report_abs("ABS_PRESSURE", report.pressure),
       input_report_key(BTN_TOUCH, BitAnd(report.mode, IPTS_STYLUS_REPORT_MODE_TOUCH)),
       input_report_key(active, BitAnd(report.mode, IPTS_STYLUS_REPORT_MODE_PROXIMITY)),
       input_report_key(BTN_STYLUS, BitAnd(report.mode, IPTS_STYLUS_REPORT_MODE_BUTTON)),
       input_report_abs("ABS_MISC", report.timestamp),
       input_report_abs("ABS_TILT_X", tilt[1]),
       input_report_abs("ABS_TILT_Y", tilt[2]),
       input_sync >>

ReportEventsToolTouch(active, report, tilt) ==
    << input_report_key(BTN_TOUCH, BitAnd(report.mode, IPTS_STYLUS_REPORT_MODE_TOUCH)),
       input_report_key(active, BitAnd(report.mode, IPTS_STYLUS_REPORT_MODE_TOUCH)),
       input_report_key(BTN_STYLUS, BitAnd(report.mode, IPTS_STYLUS_REPORT_MODE_BUTTON)),
       input_report_abs("ABS_X", report.x),
       input_report_abs("ABS_Y", report.y),
       input_report_abs("ABS_PRESSURE", report.pressure),
       input_report_abs("ABS_MISC", report.timestamp),
       input_report_abs("ABS_TILT_X", tilt[1]),
       input_report_abs("ABS_TILT_Y", tilt[2]),
       input_sync >>

ReportEventsNoSync(active, report, tilt) ==
    << input_report_key(BTN_TOUCH, BitAnd(report.mode, IPTS_STYLUS_REPORT_MODE_TOUCH)),
       input_report_key(active, BitAnd(report.mode, IPTS_STYLUS_REPORT_MODE_PROXIMITY)),
       input_report_key(BTN_STYLUS, BitAnd(report.mode, IPTS_STYLUS_REPORT_MODE_BUTTON)),
       input_report_abs("ABS_X", report.x),
       input_report_abs("ABS_Y", report.y),
       input_report_abs("ABS_PRESSURE", report.pressure),
       input_report_abs("ABS_MISC", report.timestamp),
       input_report_abs("ABS_TILT_X", tilt[1]),
       input_report_abs("ABS_TILT_Y", tilt[2]) >>

ReportEvents(active, report, tilt) ==
    << input_report_key(BTN_TOUCH, BitAnd(report.mode, IPTS_STYLUS_REPORT_MODE_TOUCH)),
       input_report_key(active, BitAnd(report.mode, IPTS_STYLUS_REPORT_MODE_PROXIMITY)),
       input_report_key(BTN_STYLUS, BitAnd(report.mode, IPTS_STYLUS_REPORT_MODE_BUTTON)),
       input_report_abs("ABS_X", report.x),
       input_report_abs("ABS_Y", report.y),
       input_report_abs("ABS_PRESSURE", report.pressure),
       input_report_abs("ABS_MISC", report.timestamp),
       input_report_abs("ABS_TILT_X", tilt[1]),
       input_report_abs("ABS_TILT_Y", tilt[2]),
       input_sync >>

\* Lines 13-57.  s is the part of the context the decoder touches, with the
\* record of what was emitted: [stylus_tool, events, calls, oob, oops].
ipts_stylus_handle_report(s, report, conv) ==
    LET prox == BitAnd(report.mode, IPTS_STYLUS_REPORT_MODE_PROXIMITY)
        rubber == BitAnd(report.mode, IPTS_STYLUS_REPORT_MODE_RUBBER)
        tilt == Tilt(report, conv)
        tool == DerivedTool(prox, rubber)
        active == SwitchTool(s.stylus_tool, tool)
        group == SwitchEvents(s.stylus_tool, tool) \o ReportEvents(active, report, tilt)
    IN  [s EXCEPT !.stylus_tool = active,
                  !.events = s.events \o group,
                  !.calls = Append(s.calls,
                                   [report |-> report,
                                    before |-> s.stylus_tool,
                                    after |-> active,
                                    converted |-> Converts(report),
                                    tx |-> tilt[1],
                                    ty |-> tilt[2],
                                    events |-> group])]

\* ------------------------------------------------------------ buffer access
\* data->data[off]; a read past the end of the array yields whatever the
\* memory behind it holds (fill).
ReadByte(d, off, fill) == IF off < Len(d) THEN d[off + 1] ELSE fill

\* A packed little-endian u16 field at off.
ReadU16(d, off, fill) == ReadByte(d, off, fill) + U8Mod * ReadByte(d, off + 1, fill)

\* reports[i] of struct ipts_stylus_report at base.
ReadReport(d, base, fill) ==
    [mode |-> ReadByte(d, base, fill),
     x |-> ReadU16(d, base + 1, fill),
     y |-> ReadU16(d, base + 3, fill),
     pressure |-> ReadU16(d, base + 5, fill),
     altitude |-> ReadU16(d, base + 7, fill),
     azimuth |-> ReadU16(d, base + 9, fill),
     timestamp |-> ReadU16(d, base + 11, fill)]

\* Lines 70-80: the report built from reports[i] of struct
\* ipts_stylus_report_ntrig at base; buffer is data->buffer.
ReadReportNtrigAsFull(d, base, fill, buffer) == ReadReport(d, base, fill)

ReadReportNtrig(d, base, fill, buffer) ==
    [mode |-> ReadByte(d, base, fill),
     x |-> ReadU16(d, base + 1, fill),
     y |-> ReadU16(d, base + 3, fill),
     pressure |-> ReadU16(d, base + 5, fill),
     altitude |-> 0,
     azimuth |-> 0,
     timestamp |-> buffer % U16Mod]

\* &reports[i]
RecordOffset(base, size, i) == base + i * size

\* The record at off reaches past the end of the array.
PastEnd(d, off, size) == off + size > Len(d)

\* Lines 69 and 100: the loop test and the increment of the u8 counter.
LoopTestLe(i, count) == i <= count

LoopTest(i, count) == i < count

NextIndexSkip(i) == (i + 2) % U8Mod

NextIndex(i) == (i + 1) % U8Mod

\* ------------------------------------------------------------ the parsers
\* env = [fill, fault, conv]: what memory past the buffer holds, whether
\* touching it faults, and what the tilt conversion returns.
RECURSIVE NtrigLoop(_, _, _, _, _)
NtrigLoop(s, td, env, i, count) ==
    IF ~LoopTest(i, count) THEN s
    ELSE LET off == RecordOffset(NtrigReportsOffset, StylusReportNtrigSize, i)
             past == PastEnd(td.data, off, StylusReportNtrigSize)
             report == ReadReportNtrig(td.data, off, env.fill, td.buffer)
         IN  IF past /\ env.fault
             THEN [s EXCEPT !.oob = TRUE, !.oops = TRUE]
             ELSE NtrigLoop(
                    ipts_stylus_handle_report([s EXCEPT !.oob = s.oob \/ past],
                                              report, env.conv),
                    td, env, NextIndex(i), count)

\* Lines 59-84.
ipts_stylus_parse_report_ntrig(s, td, env) ==
    NtrigLoop(s, td, env, 0, ReadByte(td.data, CountOffset, env.fill))

RECURSIVE ReportLoop(_, _, _, _, _)
ReportLoop(s, td, env, i, count) ==
    IF ~LoopTest(i, count) THEN s
    ELSE LET off == RecordOffset(ReportsOffset, StylusReportSize, i)
             past == PastEnd(td.data, off, StylusReportSize)
             report == ReadReport(td.data, off, env.fill)
         IN  IF past /\ env.fault
             THEN [s EXCEPT !.oob = TRUE, !.oops = TRUE]
             ELSE ReportLoop(
                    ipts_stylus_handle_report([s EXCEPT !.oob = s.oob \/ past],
                                              report, env.conv),
                    td, env, NextIndex(i), count)

\* Lines 86-102.  ntrig is ipts->quirks & IPTS_QUIRKS_NTRIG_DIGITIZER.
ipts_stylus_parse_report(s, ntrig, td, env) ==
    IF ntrig
    THEN ipts_stylus_parse_report_ntrig(s, td, env)
    ELSE ReportLoop(s, td, env, 0, ReadByte(td.data, CountOffset, env.fill))

\* ------------------------------------------------------------ inputs
\* Records a digitizer sends.
RecordValues ==
    { [mode |-> 3, x |-> 100, y |-> 200, pressure |-> 50,
       altitude |-> 0, azimuth |-> 0, timestamp |-> 7],
      [mode |-> 9, x |-> 9600, y |-> 7200, pressure |-> 4096,
       altitude |-> 4500, azimuth |-> 9000, timestamp |-> 8],
      [mode |-> 12, x |-> 0, y |-> 0, pressure |-> 0,
       altitude |-> 0, azimuth |-> 18000, timestamp |-> 65535] }

\* data->buffer of a delivered buffer.
BufferIds == {3, 12}

\* Bytes found behind the end of a buffer.
GarbageBytes == {0, 9}

\* Results of ipts_math_altitude_azimuth_to_tilt.
TiltResults == { <<-9000, 9000>>, <<1234, -5>> }

Lo(v) == v % U8Mod
Hi(v) == (v \div U8Mod) % U8Mod

EncodeReport(r) ==
    << r.mode, Lo(r.x), Hi(r.x), Lo(r.y), Hi(r.y), Lo(r.pressure), Hi(r.pressure),
       Lo(r.altitude), Hi(r.altitude), Lo(r.azimuth), Hi(r.azimuth),
       Lo(r.timestamp), Hi(r.timestamp) >>

EncodeReportNtrig(r) ==
    << r.mode, Lo(r.x), Hi(r.x), Lo(r.y), Hi(r.y), Lo(r.pressure), Hi(r.pressure) >>

RECURSIVE EncodeRecords(_, _)
EncodeRecords(recs, ntrig) ==
    IF recs = << >> THEN << >>
    ELSE (IF ntrig THEN EncodeReportNtrig(Head(recs)) ELSE EncodeReport(Head(recs)))
         \o EncodeRecords(Tail(recs), ntrig)

\* The bytes before the records: zeros, with the count at CountOffset.
BufferHeader(count, ntrig) ==
    [k \in 1..(IF ntrig THEN NtrigReportsOffset ELSE ReportsOffset) |->
        IF k = CountOffset + 1 THEN count ELSE 0]

RecordSeqs == UNION { [1..n -> RecordValues] : n \in 0..MaxRecords }

\* The buffers the transport delivers to a session of the given format.
Buffers(ntrig) ==
    { BufferHeader(c, ntrig) \o EncodeRecords(recs, ntrig) :
        c \in 0..MaxCount, recs \in RecordSeqs }

\* ------------------------------------------------------------ actions
Init ==
    /\ quirks \in BOOLEAN
    /\ stylus = "NULL"
    /\ dev = "none"
    /\ stylus_tool = NO_TOOL
    /\ keys = NoKeys
    /\ data = [buffer |-> 0, data |-> << >>]
    /\ pc = "idle"
    /\ last = "none"
    /\ ret = 0
    /\ events = << >>
    /\ calls = << >>
    /\ tool0 = NO_TOOL
    /\ keys0 = NoKeys
    /\ oob = FALSE
    /\ oops = FALSE
    /\ seen = FALSE
    /\ first = FALSE
    /\ badfree = FALSE
    /\ absmax = 0

\* Lines 113-115 and 126: the pressure maximum declared by ipts_stylus_init.
PressureMaxCurrent(ntrig) == 4096

PressureMax(ntrig) == IF ntrig THEN 1024 ELSE 4096

\* input_register_device error codes (-ENOMEM, -EINVAL).
RegisterErrors == {-12, -22}

\* Lines 109-111: input_allocate_device returned NULL.
InitAllocFails ==
    /\ stylus' = "NULL"
    /\ dev' = "none"
    /\ ret' = -12
    /\ UNCHANGED <<stylus_tool, keys, absmax>>

\* Lines 109-151: the device was allocated, input_register_device failed.
InitRegisterFailsLeak ==
    /\ stylus' = "dev"
    /\ dev' = "allocated"
    /\ stylus_tool' = BTN_TOOL_PEN
    /\ keys' = NoKeys
    /\ absmax' = PressureMax(quirks)
    /\ ret' \in RegisterErrors

InitRegisterFails ==
    /\ stylus' = "dev"
    /\ dev' = "freed"
    /\ stylus_tool' = BTN_TOOL_PEN
    /\ keys' = NoKeys
    /\ absmax' = PressureMax(quirks)
    /\ ret' \in RegisterErrors

\* Lines 109-153: success.
InitSucceedsNoTool ==
    /\ stylus' = "dev"
    /\ dev' = "registered"
    /\ keys' = NoKeys
    /\ absmax' = PressureMax(quirks)
    /\ ret' = 0
    /\ UNCHANGED stylus_tool

InitSucceeds ==
    /\ stylus' = "dev"
    /\ dev' = "registered"
    /\ stylus_tool' = BTN_TOOL_PEN
    /\ keys' = NoKeys
    /\ absmax' = PressureMax(quirks)
    /\ ret' = 0

\* Lines 104-154.
ipts_stylus_init ==
    /\ pc = "idle"
    /\ ~oops
    /\ dev # "registered"
    /\ \/ InitAllocFails
       \/ InitRegisterFails
       \/ InitSucceeds
    /\ last' = "init"
    /\ events' = << >>
    /\ calls' = << >>
    /\ seen' = FALSE
    /\ first' = FALSE
    /\ oob' = FALSE
    /\ badfree' = FALSE
    /\ UNCHANGED <<quirks, data, pc, tool0, keys0, oops>>

\* Lines 156-162.
ipts_stylus_free ==
    /\ pc = "idle"
    /\ ~oops
    /\ last' = "free"
    /\ IF stylus = "NULL"
       THEN UNCHANGED <<dev, badfree>>
       ELSE /\ dev' = IF dev = "registered" THEN "unregistered" ELSE dev
            /\ badfree' = (dev # "registered")
    /\ events' = << >>
    /\ calls' = << >>
    /\ first' = FALSE
    /\ oob' = FALSE
    /\ UNCHANGED <<quirks, stylus, stylus_tool, keys, data, pc, ret, tool0, keys0,
                   oops, seen, absmax>>

\* The transport hands a buffer of the session's wire format to the driver.
Deliver ==
    /\ pc = "idle"
    /\ ~oops
    /\ dev = "registered"
    /\ \E b \in Buffers(quirks), id \in BufferIds :
          data' = [buffer |-> id, data |-> b]
    /\ pc' = "buffer"
    /\ last' = "deliver"
    /\ events' = << >>
    /\ calls' = << >>
    /\ tool0' = stylus_tool
    /\ keys0' = keys
    /\ oob' = FALSE
    /\ first' = FALSE
    /\ UNCHANGED <<quirks, stylus, dev, stylus_tool, keys, ret, oops, seen, badfree,
                   absmax>>

\* ipts_stylus_parse_report on the delivered buffer, lines 86-102.
ParseReport ==
    /\ pc = "buffer"
    /\ \E fill \in GarbageBytes, fault \in BOOLEAN, conv \in TiltResults :
          LET s0 == [stylus_tool |-> stylus_tool, events |-> << >>, calls |-> << >>,
                     oob |-> FALSE, oops |-> FALSE]
              s1 == ipts_stylus_parse_report(s0, quirks, data,
                        [fill |-> fill, fault |-> fault, conv |-> conv])
          IN  /\ stylus_tool' = s1.stylus_tool
              /\ events' = s1.events
              /\ calls' = s1.calls
              /\ oob' = s1.oob
              /\ oops' = s1.oops
              /\ keys' = ApplyEvents(keys, s1.events)
              /\ first' = (~seen /\ s1.calls # << >>)
              /\ seen' = (seen \/ s1.calls # << >>)
    /\ pc' = "idle"
    /\ last' = "parse"
    /\ UNCHANGED <<quirks, stylus, dev, data, ret, tool0, keys0, badfree, absmax>>

Next ==
    \/ ipts_stylus_init
    \/ ipts_stylus_free
    \/ Deliver
    \/ ParseReport

Spec == Init /\ [][Next]_vars

\* ------------------------------------------------------------ properties
\* The last operation was a parse of the delivered buffer.
Parsed == last = "parse"

\* The count byte of the delivered buffer.
Count == data.data[CountOffset + 1]

\* The delivered buffer holds fewer records than its count byte declares.
Malformed ==
    IF quirks
    THEN NtrigReportsOffset + Count * StylusReportNtrigSize > Len(data.data)
    ELSE ReportsOffset + Count * StylusReportSize > Len(data.data)

\* The mode bits of a report, as booleans.
ModeProximity(r) == r.mode % 2 = 1
ModeTouch(r) == (r.mode \div 2) % 2 = 1
ModeButton(r) == (r.mode \div 4) % 2 = 1
ModeRubber(r) == (r.mode \div 8) % 2 = 1
Bool(b) == IF b THEN 1 ELSE 0

\* The tool a report stands for.
ToolOf(r) == IF ModeProximity(r) /\ ModeRubber(r) THEN BTN_TOOL_RUBBER ELSE BTN_TOOL_PEN

SetActive(tool, v) == [type |-> "EV_KEY", code |-> tool, value |-> v]
SetTouch(v) == [type |-> "EV_KEY", code |-> BTN_TOUCH, value |-> v]
SetButton(v) == [type |-> "EV_KEY", code |-> BTN_STYLUS, value |-> v]
SetAxis(axis, v) == [type |-> "EV_ABS", code |-> axis, value |-> v]
Flush == [type |-> "EV_SYN", code |-> "SYN_REPORT", value |-> 0]

\* Where the events of the i-th handled report begin in the emitted stream.
RECURSIVE GroupStart(_)
GroupStart(i) == IF i = 1 THEN 1 ELSE GroupStart(i - 1) + Len(calls[i - 1].events)

\* The events of the i-th handled report, cut from the emitted stream.
Group(i) == SubSeq(events, GroupStart(i), GroupStart(i) + Len(calls[i].events) - 1)

\* The ten events of a report handled with the given active tool.
TenEvents(c) ==
    << SetTouch(Bool(ModeTouch(c.report))),
       SetActive(c.after, Bool(ModeProximity(c.report))),
       SetButton(Bool(ModeButton(c.report))),
       SetAxis("ABS_X", c.report.x),
       SetAxis("ABS_Y", c.report.y),
       SetAxis("ABS_PRESSURE", c.report.pressure),
       SetAxis("ABS_MISC", c.report.timestamp),
       SetAxis("ABS_TILT_X", c.tx),
       SetAxis("ABS_TILT_Y", c.ty),
       Flush >>

\* An event that belongs to the report itself or names the given tool.
OfReportOrTool(e, tool) ==
    \/ e.code = tool
    \/ e.type = "EV_ABS"
    \/ e.code \in {BTN_TOUCH, BTN_STYLUS}

\* C1: whenever a handled report's tool differs from the active tool, its
\* events in the stream begin with SetActive(previous tool, 0) and Flush, and
\* every event of the report and every event naming the new tool comes after
\* these two.
C1_ToolSwitchOrdering ==
    Parsed =>
        \A i \in 1..Len(calls) :
            ToolOf(calls[i].report) # calls[i].before =>
                LET g == Group(i) IN
                /\ Len(g) >= 3
                /\ g[1] = SetActive(calls[i].before, 0)
                /\ g[2] = Flush
                /\ \A k \in 1..Len(g) :
                       OfReportOrTool(g[k], ToolOf(calls[i].report)) => k > 2

\* A pen-active session was switched to the eraser by the last buffer.
C1_Witness ==
    /\ Parsed
    /\ ~Malformed
    /\ \E i \in 1..Len(calls) :
          /\ calls[i].before = BTN_TOOL_PEN
          /\ ToolOf(calls[i].report) = BTN_TOOL_RUBBER
          /\ Group(i)[1] = SetActive(BTN_TOOL_PEN, 0)

AtMostOneActive(k) == k[BTN_TOOL_PEN] + k[BTN_TOOL_RUBBER] <= 1

\* The sink's view, from k before events[i], has at most one active tool
\* before and after every remaining event of the stream.
RECURSIVE OneActiveFrom(_, _)
OneActiveFrom(k, i) ==
    /\ AtMostOneActive(k)
    /\ i > Len(events) \/ OneActiveFrom(ApplyEvent(k, events[i]), i + 1)

\* C2: applying the emitted events in order to the sink's view never leaves
\* both Pen and Eraser active, at any point of the stream.
C2_AtMostOneActiveTool ==
    /\ AtMostOneActive(keys)
    /\ OneActiveFrom(keys0, 1)
    /\ Parsed => keys = ApplyEvents(keys0, events)

\* The eraser became active in a session whose pen was active.
C2_Witness ==
    /\ Parsed
    /\ ~Malformed
    /\ keys0[BTN_TOOL_PEN] = 1
    /\ keys[BTN_TOOL_RUBBER] = 1

\* C3: after the optional tool-switch pair, the events of every handled
\* report are exactly SetTouch, SetActive(active tool, proximity), SetButton,
\* SetAxis X, Y, Pressure, Misc, TiltX, TiltY, Flush, in this order; no
\* position or pressure event precedes the activation event of its group.
C3_FixedEventOrder ==
    Parsed =>
        \A i \in 1..Len(calls) :
            LET g == Group(i)
                n == IF ToolOf(calls[i].report) # calls[i].before THEN 2 ELSE 0
            IN  /\ Len(g) = n + 10
                /\ SubSeq(g, n + 1, n + 10) = TenEvents(calls[i])
                /\ calls[i].after = ToolOf(calls[i].report)
                /\ \A k \in 1..Len(g) :
                       g[k].code \in {"ABS_X", "ABS_Y", "ABS_PRESSURE"} =>
                           \E j \in 1..(k - 1) :
                               g[j] = SetActive(calls[i].after,
                                                Bool(ModeProximity(calls[i].report)))

\* A buffer with a switching and a non-switching report was handled.
C3_Witness ==
    /\ Parsed
    /\ ~Malformed
    /\ \E i, j \in 1..Len(calls) :
          /\ Len(calls[i].events) = 12
          /\ Len(calls[j].events) = 10
          /\ calls[i].report.x = 9600

\* C6: for a well-formed buffer exactly Count reports are handled, the i-th
\* being the i-th record on the wire, and the stream is the events of record
\* 1, then those of record 2, and so on, each ending with its Flush.
C6_DecodeCardinalityAndOrder ==
    (Parsed /\ ~Malformed) =>
        /\ Len(calls) = Count
        /\ ~oob
        /\ ~oops
        /\ \A i \in 1..Len(calls) :
              /\ calls[i].report =
                    IF quirks
                    THEN ReadReportNtrig(data.data,
                             NtrigReportsOffset + (i - 1) * StylusReportNtrigSize,
                             0, data.buffer)
                    ELSE ReadReport(data.data,
                             ReportsOffset + (i - 1) * StylusReportSize, 0)
              /\ Group(i) = calls[i].events
              /\ calls[i].events[Len(calls[i].events)] = Flush
        /\ Len(events) = GroupStart(Len(calls) + 1) - 1

\* Two different records were decoded from one well-formed buffer.
C6_Witness ==
    /\ Parsed
    /\ ~Malformed
    /\ Count = 2
    /\ Len(calls) = 2
    /\ calls[1].report.x # calls[2].report.x

\* C7: a report whose tool equals the active tool emits exactly the ten
\* events, with no leading deactivation and Flush, and leaves the active tool
\* unchanged.
C7_NoSwitchCase ==
    Parsed =>
        \A i \in 1..Len(calls) :
            ToolOf(calls[i].report) = calls[i].before =>
                /\ Group(i) = TenEvents(calls[i])
                /\ Group(i)[1] = SetTouch(Bool(ModeTouch(calls[i].report)))
                /\ calls[i].after = calls[i].before

\* A proximity|touch pen report was the first report of a session.
C7_Witness ==
    /\ Parsed
    /\ ~Malformed
    /\ first
    /\ calls[1].report.mode = 3
    /\ calls[1].before = BTN_TOOL_PEN
    /\ Len(events) >= 10

\* C8: after every handled report the active tool is the tool of that
\* report (Eraser iff proximity and rubber), and it changes nowhere else
\* while a buffer is decoded.
C8_ActiveToolTracksLastReport ==
    /\ pc = "buffer" => stylus_tool = tool0
    /\ Parsed =>
          /\ \A i \in 1..Len(calls) :
                /\ calls[i].after = ToolOf(calls[i].report)
                /\ calls[i].before = IF i = 1 THEN tool0 ELSE calls[i - 1].after
          /\ stylus_tool = IF calls = << >> THEN tool0 ELSE calls[Len(calls)].after

\* The last buffer ended with an eraser report after a pen report.
C8_Witness ==
    /\ Parsed
    /\ ~Malformed
    /\ Len(calls) >= 2
    /\ calls[Len(calls)].before = BTN_TOOL_PEN
    /\ stylus_tool = BTN_TOOL_RUBBER

\* C9: after a successful init the active tool is Pen, in both wire
\* formats, so the first report of a session begins with the tool-switch pair
\* iff it is an eraser report.
C9_InitialToolIsPen ==
    /\ (last = "init" /\ ret = 0) => (stylus_tool = BTN_TOOL_PEN /\ dev = "registered")
    /\ (Parsed /\ first) =>
          /\ calls[1].before = BTN_TOOL_PEN
          /\ (Len(calls[1].events) = 12 /\ events[2] = Flush)
                <=> (ModeProximity(calls[1].report) /\ ModeRubber(calls[1].report))

\* A legacy-format session whose first report was an eraser report.
C9_Witness ==
    /\ Parsed
    /\ ~Malformed
    /\ first
    /\ quirks
    /\ ModeProximity(calls[1].report) /\ ModeRubber(calls[1].report)
    /\ events[1] = SetActive(BTN_TOOL_PEN, 0)

\* C10: a buffer with count 0 emits nothing, handles no report and leaves
\* the active tool and the sink's view unchanged.
C10_EmptyBuffer ==
    (Parsed /\ Count = 0) =>
        /\ events = << >>
        /\ calls = << >>
        /\ stylus_tool = tool0
        /\ keys = keys0

\* A buffer that holds records but declares none was parsed.
C10_Witness ==
    /\ Parsed
    /\ Count = 0
    /\ Len(data.data) > NtrigReportsOffset
    /\ keys0[BTN_TOOL_RUBBER] = 1

\* C4 (as claimed): a buffer whose count byte reaches past its length is
\* refused: nothing past the buffer is read and no event is emitted.
C4_MalformedBufferRefused ==
    (Parsed /\ Malformed) =>
        /\ ~oob
        /\ events = << >>
        /\ calls = << >>

\* C5 (as claimed): after a buffer whose count byte reaches past its length
\* the active tool is what it was before the buffer.
C5_SessionIntactAfterMalformed ==
    (Parsed /\ Malformed) => stylus_tool = tool0

\* ------------------------------------------------------------ records on the wire
\* Offset and size of the i-th record of the delivered buffer.
WireSize == IF quirks THEN StylusReportNtrigSize ELSE StylusReportSize
WireOffset(i) ==
    (IF quirks THEN NtrigReportsOffset ELSE ReportsOffset) + (i - 1) * WireSize

\* The i-th record lies within the delivered buffer.
InBuffer(i) == WireOffset(i) + WireSize <= Len(data.data)

\* The little-endian u16 at off of the delivered buffer.
WireU16(off) == data.data[off + 1] + 256 * data.data[off + 2]

\* The values carried by the events with the given code in a group.
ValuesOf(g, code) == { g[k].value : k \in { j \in 1..Len(g) : g[j].code = code } }

\* C11 (as claimed): every pressure event emitted for a record of a buffer
\* is at most 1024 in a legacy session and at most 4096 in a current one.
C11_PressureBound ==
    (Parsed /\ ~oob) =>
        \A k \in 1..Len(events) :
            events[k].code = "ABS_PRESSURE" =>
                events[k].value <= (IF quirks THEN 1024 ELSE 4096)

\* C11 (amended): the maximum declared for ABS_PRESSURE is 1024 in a legacy
\* session and 4096 in a current one, and every handled report emits one
\* pressure value, the 16-bit pressure of its record unchanged; so the value
\* is within the declared maximum whenever the record's pressure is.
C11_PressurePassedThrough ==
    /\ dev = "registered" => absmax = (IF quirks THEN 1024 ELSE 4096)
    /\ Parsed =>
          \A i \in 1..Len(calls) :
              /\ ValuesOf(Group(i), "ABS_PRESSURE") = {calls[i].report.pressure}
              /\ InBuffer(i) =>
                    /\ calls[i].report.pressure = WireU16(WireOffset(i) + 5)
                    /\ WireU16(WireOffset(i) + 5) <= absmax =>
                          \A v \in ValuesOf(Group(i), "ABS_PRESSURE") : v <= absmax

\* A legacy session emitted a record's pressure of 4096 and one of 50.
C11_Witness ==
    /\ Parsed
    /\ ~Malformed
    /\ quirks
    /\ absmax = 1024
    /\ \E i, j \in 1..Len(calls) :
          /\ ValuesOf(Group(i), "ABS_PRESSURE") = {4096}
          /\ ValuesOf(Group(j), "ABS_PRESSURE") = {50}

\* C12: in a legacy session every report is handled with altitude 0,
\* azimuth 0 and the buffer's id as timestamp, so every group carries tilt
\* (0, 0) and the buffer's id as Misc; mode, x, y and pressure are those of
\* the record at 44 + i * record size.
C12_LegacySynthesis ==
    (Parsed /\ quirks) =>
        \A i \in 1..Len(calls) :
            LET r == calls[i].report
                off == NtrigReportsOffset + (i - 1) * StylusReportNtrigSize
            IN  /\ r.altitude = 0
                /\ r.azimuth = 0
                /\ r.timestamp = data.buffer
                /\ ValuesOf(Group(i), "ABS_TILT_X") = {0}
                /\ ValuesOf(Group(i), "ABS_TILT_Y") = {0}
                /\ ValuesOf(Group(i), "ABS_MISC") = {data.buffer}
                /\ InBuffer(i) =>
                      /\ r.mode = data.data[off + 1]
                      /\ r.x = WireU16(off + 1)
                      /\ r.y = WireU16(off + 3)
                      /\ r.pressure = WireU16(off + 5)

\* A legacy buffer with id 12 and two different records was decoded.
C12_Witness ==
    /\ Parsed
    /\ ~Malformed
    /\ quirks
    /\ data.buffer = 12
    /\ Len(calls) = 2
    /\ calls[1].report.x = 9600
    /\ calls[2].report.x = 100
    /\ ValuesOf(events, "ABS_MISC") = {12}

\* C13: a report with altitude 0 is handled without calling the tilt
\* converter and its tilt events are SetAxis(TiltX, 0) and SetAxis(TiltY, 0),
\* whatever its azimuth and mode.
C13_ZeroAltitudeShortCircuit ==
    Parsed =>
        \A i \in 1..Len(calls) :
            calls[i].report.altitude = 0 =>
                /\ ~calls[i].converted
                /\ ValuesOf(Group(i), "ABS_TILT_X") = {0}
                /\ ValuesOf(Group(i), "ABS_TILT_Y") = {0}

\* A current-format buffer held a record with altitude 0 and a non-zero
\* azimuth next to one whose altitude was converted.
C13_Witness ==
    /\ Parsed
    /\ ~Malformed
    /\ ~quirks
    /\ \E i, j \in 1..Len(calls) :
          /\ calls[i].report.altitude = 0
          /\ calls[i].report.azimuth = 18000
          /\ calls[j].converted
          /\ calls[j].tx # 0

\* C14: when ipts_stylus_init fails at registration the device has been
\* released and the error code is returned; when it fails at allocation
\* -ENOMEM is returned and there is no device; in neither case is a device
\* left allocated or registered.
C14_RegistrationFailureLeavesNothingLive ==
    last = "init" =>
        /\ ret # 0 => dev \in {"none", "freed"}
        /\ dev = "registered" <=> ret = 0
        /\ stylus = "NULL" => (ret = -12 /\ dev = "none")
        /\ (stylus = "dev" /\ dev # "registered") => (dev = "freed" /\ ret \in {-12, -22})

\* input_register_device failed with -EINVAL in ipts_stylus_init.
C14_Witness ==
    /\ last = "init"
    /\ ret = -22
    /\ stylus = "dev"
    /\ dev = "freed"

\* C15 (as claimed): ipts_stylus_free calls input_unregister_device only on
\* a device that is allocated and registered.
C15_TeardownSafety == last = "free" => ~badfree

OtherTool(tool) == IF tool = BTN_TOOL_PEN THEN BTN_TOOL_RUBBER ELSE BTN_TOOL_PEN

\* The sink's view after the last Flush of the i-th handled report.
KeysAfter(i) ==
    IF i = 0 THEN keys0
    ELSE ApplyEvents(keys0, SubSeq(events, 1, GroupStart(i + 1) - 1))

\* C16: after the last Flush of every handled report the sink sees the
\* active tool active iff the report's proximity bit is set, and the other
\* tool inactive; a tool that was active is inactive at the end of a report
\* with proximity cleared or with the other tool.
C16_SinkViewTracksProximity ==
    Parsed =>
        /\ \A i \in 1..Len(calls) :
              LET k == KeysAfter(i) IN
              /\ k[calls[i].after] = Bool(ModeProximity(calls[i].report))
              /\ k[OtherTool(calls[i].after)] = 0
              /\ \A tool \in ToolKeys :
                    ( /\ KeysAfter(i - 1)[tool] = 1
                      /\ \/ ~ModeProximity(calls[i].report)
                         \/ ToolOf(calls[i].report) # tool )
                    => k[tool] = 0
        /\ ~oops => keys = KeysAfter(Len(calls))

\* An active eraser was followed by a report with proximity cleared.
C16_Witness ==
    /\ Parsed
    /\ ~Malformed
    /\ keys0[BTN_TOOL_RUBBER] = 1
    /\ Len(calls) = 1
    /\ ~ModeProximity(calls[1].report)
    /\ keys = NoKeys

NumFlush == Cardinality({ k \in 1..Len(events) : events[k] = Flush })
NumSwitches == Cardinality({ i \in 1..Len(calls) : calls[i].before # calls[i].after })

\* C17: the events of every handled report end with a Flush; once the parse
\* has returned the stream ends with a Flush and holds as many Flush events
\* as the buffer's count plus the tool switches made while decoding it.
C17_FlushDiscipline ==
    /\ Parsed =>
          \A i \in 1..Len(calls) : Group(i)[Len(Group(i))] = Flush
    /\ (Parsed /\ ~oops) =>
          /\ events # << >> => events[Len(events)] = Flush
          /\ NumFlush = Count + NumSwitches

\* A buffer of two records switched to the eraser and back to the pen.
C17_Witness ==
    /\ Parsed
    /\ ~Malformed
    /\ Count = 2
    /\ NumSwitches = 2
    /\ NumFlush = 4

\* C18 (as claimed): for every count byte the record loop finishes after
\* exactly count iterations and the decode-and-emit cycle runs to completion.
C18_DecodeTerminates ==
    Parsed => (~oops /\ Len(calls) = Count)

====
